---------------------------- MODULE Spec2Model ----------------------------
(***************************************************************************)
(* w2mqtt: the main loop of w2mqtt.py, its reader thread, the SensorList   *)
(* registry (duplicate suppression, per-id Sensor state) and the watchdog  *)
(* that kills the rtl_433 decoder when no reading has been published for   *)
(* more than 60 seconds.                                                   *)
(*                                                                         *)
(* Representation of Python values:                                        *)
(*   - a parsed JSON object is a TLA+ record holding exactly the fields    *)
(*     present in the object ('f' in data  is  Has(data, "f"));            *)
(*   - a line that json.loads cannot parse is the record [raw |-> text];   *)
(*   - timestamps are strings and are only ever compared for equality;     *)
(*   - temperatures are held in ninths of a degree Celsius and wind speeds *)
(*     in 1/1609344 mph, so that the two unit conversions of Sensor.update *)
(*     are exact in integers; an average sum(x)/len(x) is the pair         *)
(*     [sum, n];                                                           *)
(*   - the integers of BME280.reading are unbounded: a sign and the       *)
(*     digits in base 2^15; the float of line 78 is the double nearest to  *)
(*     the quotient; a value returned by reading is the pair [num, den];   *)
(*   - an uncaught exception ends the main thread: pc = "crashed" and err  *)
(*     names the exception.                                                *)
(***************************************************************************)
EXTENDS Integers, Sequences, FiniteSets, TLC

VARIABLES
    inpq,             \* SimpleQueue shared by the reader thread and main
    nRead,            \* number of lines the reader thread has read so far
    pc,               \* position of the main thread
    err,              \* uncaught exception that ended main, or "none"
    line,             \* main: the line taken from the queue in this iteration
    bme,              \* BME280: the calibration read by setup (tcal, pcal)
    rawd,             \* BME280.reading: the block last read from the device
    thisTime,         \* main: last value read from time.time()
    lastPressureTime, \* main
    lastInputTime,    \* main: the watchdog clock
    ignored,          \* main: list of ids already reported as unknown
    lastMessage,      \* SensorList.lastMessage : id -> time
    sensors,          \* SensorList.sensors     : id -> Sensor
    mqtt,             \* messages published during the current loop iteration
    killed            \* os.kill(pids[0], SIGKILL) has been called

vars == <<inpq, nRead, pc, err, line, bme, rawd, thisTime, lastPressureTime, lastInputTime,
          ignored, lastMessage, sensors, mqtt, killed>>

---------------------------------------------------------------------------
(* Bounds of the model *)

MaxQueue == 2

MaxLines == 3

MaxTime == 180

MaxRainLines == 6

(* Program constants *)

StallAfter == 60

PressureEvery == 15

MicroKmPerMile == 1609344

StartTime == 100

---------------------------------------------------------------------------
(* Python helpers *)

Has(d, f) == f \in DOMAIN d

RECURSIVE Sum(_)
Sum(s) == IF s = <<>> THEN 0 ELSE Head(s) + Sum(Tail(s))

\* nothing is ever found in the list
InListNever(x, l) == FALSE

\* x in l
InList(x, l) == \E i \in 1..Len(l) : l[i] = x

\* json.loads(line): the parsed object, or a JSONDecodeError
JsonLoads(text) ==
    IF Has(text, "raw")
    THEN [err |-> "JSONDecodeError", data |-> text]
    ELSE [err |-> "none", data |-> text]

---------------------------------------------------------------------------
(* Python integers. BME280.reading computes with values far beyond 2^31,   *)
(* so an integer is kept as a sign and a magnitude: the sequence of its    *)
(* digits in base 2^15, least significant first, without leading zeros.    *)

Limb == 32768

LimbBits == 15

RECURSIVE Trim(_)
Trim(m) ==
    IF m = <<>> THEN m
    ELSE IF m[Len(m)] = 0 THEN Trim(SubSeq(m, 1, Len(m) - 1)) ELSE m

RECURSIVE MagOf(_)
MagOf(n) == IF n = 0 THEN <<>> ELSE <<n % Limb>> \o MagOf(n \div Limb)

\* the integer of magnitude t (without leading zeros), negative if neg
MkTrimmed(neg, t) == [neg |-> neg /\ t # <<>>, mag |-> t]

MkBig(neg, m) == MkTrimmed(neg, Trim(m))

\* the Python integer n, for -2^31 < n < 2^31
BigOf(n) == MkBig(n < 0, MagOf(IF n < 0 THEN -n ELSE n))

BigZero == BigOf(0)

HeadOr0(m) == IF m = <<>> THEN 0 ELSE Head(m)

TailOrEmpty(m) == IF m = <<>> THEN <<>> ELSE Tail(m)

\* a + b + c, digit by digit; t is the sum of the lowest digits and c
RECURSIVE MagAdd(_, _, _), MagAddStep(_, _, _)
MagAdd(a, b, c) ==
    IF a = <<>> /\ b = <<>> THEN (IF c = 0 THEN <<>> ELSE <<c>>)
    ELSE MagAddStep(HeadOr0(a) + HeadOr0(b) + c, TailOrEmpty(a), TailOrEmpty(b))

MagAddStep(t, a, b) == <<t % Limb>> \o MagAdd(a, b, t \div Limb)

\* -1, 0 or 1 as a < b, a = b or a > b (magnitudes without leading zeros)
RECURSIVE MagCmp(_, _)
MagCmp(a, b) ==
    IF Len(a) # Len(b) THEN (IF Len(a) < Len(b) THEN -1 ELSE 1)
    ELSE IF a = <<>> THEN 0
    ELSE IF a[Len(a)] # b[Len(b)] THEN (IF a[Len(a)] < b[Len(b)] THEN -1 ELSE 1)
    ELSE MagCmp(SubSeq(a, 1, Len(a) - 1), SubSeq(b, 1, Len(b) - 1))

\* a - b - c for a >= b + c; t is the difference of the lowest digits
RECURSIVE MagSub(_, _, _), MagSubStep(_, _, _)
MagSub(a, b, c) ==
    IF a = <<>> THEN <<>>
    ELSE MagSubStep(Head(a) - HeadOr0(b) - c, Tail(a), TailOrEmpty(b))

MagSubStep(t, a, b) ==
    IF t < 0 THEN <<t + Limb>> \o MagSub(a, b, 1) ELSE <<t>> \o MagSub(a, b, 0)

\* a * k + c for 0 <= k, c < 2^15
RECURSIVE MagMulSmall(_, _, _), MagMulStep(_, _, _)
MagMulSmall(a, k, c) ==
    IF a = <<>> THEN (IF c = 0 THEN <<>> ELSE <<c>>)
    ELSE MagMulStep(Head(a) * k + c, Tail(a), k)

MagMulStep(t, a, k) == <<t % Limb>> \o MagMulSmall(a, k, t \div Limb)

RECURSIVE MagMul(_, _)
MagMul(a, b) ==
    IF a = <<>> \/ b = <<>> THEN <<>>
    ELSE MagAdd(MagMulSmall(a, Head(b), 0), <<0>> \o MagMul(a, Tail(b)), 0)

\* quotient and remainder of a by k, for 0 < k <= 2^15; hi is the result
\* for the digits above the lowest digit x
RECURSIVE MagDivSmall(_, _), MagDivStep(_, _, _)
MagDivSmall(a, k) ==
    IF a = <<>> THEN [q |-> <<>>, r |-> 0]
    ELSE MagDivStep(MagDivSmall(Tail(a), k), Head(a), k)

MagDivStep(hi, x, k) ==
    [q |-> <<(hi.r * Limb + x) \div k>> \o hi.q, r |-> (hi.r * Limb + x) % k]

RECURSIVE BitLenSmall(_)
BitLenSmall(n) == IF n = 0 THEN 0 ELSE 1 + BitLenSmall(n \div 2)

\* int.bit_length of a magnitude
MagBitLen(a) ==
    IF a = <<>> THEN 0 ELSE LimbBits * (Len(a) - 1) + BitLenSmall(a[Len(a)])

MagShl(a, k) ==
    Trim([i \in 1..(k \div LimbBits) |-> 0]
         \o MagMulSmall(a, 2 ^ (k % LimbBits), 0))

\* the quotient d and the digits lo shifted out, as floor and inexactness
MagShrOut(lo, d) == [q |-> Trim(d.q), lost |-> d.r # 0 \/ Trim(lo) # <<>>]

\* floor(a / 2^k), and whether a bit was shifted out
MagShr(a, k) ==
    MagShrOut(SubSeq(a, 1, IF k \div LimbBits < Len(a)
                           THEN k \div LimbBits ELSE Len(a)),
              MagDivSmall(SubSeq(a, k \div LimbBits + 1, Len(a)),
                          2 ^ (k % LimbBits)))

\* the largest g in lo..hi with g * b <= t, for lo * b <= t
RECURSIVE MagDigit(_, _, _, _), MagDigitStep(_, _, _, _, _)
MagDigit(t, b, lo, hi) ==
    IF lo = hi THEN lo ELSE MagDigitStep(t, b, lo, hi, (lo + hi + 1) \div 2)

MagDigitStep(t, b, lo, hi, mid) ==
    IF MagCmp(Trim(MagMulSmall(b, mid, 0)), t) <= 0
    THEN MagDigit(t, b, mid, hi)
    ELSE MagDigit(t, b, lo, mid - 1)

\* long division: the quotient q of the higher digits, the running
\* remainder t and the digit g found for it
MagDivOut(q, t, b, g) ==
    [q |-> <<g>> \o q, r |-> Trim(MagSub(t, MagMulSmall(b, g, 0), 0))]

\* nothing left to divide gives the digit 0
MagDivDigit(q, t, b) ==
    IF t = <<>> THEN [q |-> <<0>> \o q, r |-> <<>>]
    ELSE MagDivOut(q, t, b, MagDigit(t, b, 0, Limb - 1))

\* quotient and remainder of a by b # 0: long division, digit by digit
RECURSIVE MagDivMod(_, _), MagDivModStep(_, _, _)
MagDivMod(a, b) ==
    IF a = <<>> THEN [q |-> <<>>, r |-> <<>>]
    ELSE MagDivModStep(MagDivMod(Tail(a), b), Head(a), b)

MagDivModStep(hi, x, b) == MagDivDigit(hi.q, Trim(<<x>> \o hi.r), b)

BigNeg(x) == MkBig(~x.neg, x.mag)

\* x + y
BigAdd(x, y) ==
    IF x.neg = y.neg THEN MkBig(x.neg, MagAdd(x.mag, y.mag, 0))
    ELSE IF MagCmp(x.mag, y.mag) >= 0
    THEN MkBig(x.neg, MagSub(x.mag, y.mag, 0))
    ELSE MkBig(y.neg, MagSub(y.mag, x.mag, 0))

\* x - y
BigSub(x, y) == BigAdd(x, BigNeg(y))

\* x * y
BigMul(x, y) == MkBig(x.neg # y.neg, MagMul(x.mag, y.mag))

\* x << k
BigShl(x, k) == MkBig(x.neg, MagShl(x.mag, k))

\* the floor of -(m / 2^k) or of m / 2^k from s = MagShr(m, k)
BigShrOut(neg, s) ==
    IF neg /\ s.lost THEN MkBig(TRUE, MagAdd(s.q, <<1>>, 0)) ELSE MkBig(neg, s.q)

\* x >> k: the floor of x / 2^k, also for x < 0
BigShr(x, k) == BigShrOut(x.neg, MagShr(x.mag, k))

\* the quotient of n by d # 0 truncated towards zero, computed exactly
BigTruncDiv(n, d) == MkBig(n.neg # d.neg, Trim(MagDivMod(n.mag, d.mag).q))

\* a * 2^k divided by b, with remainder (k may be negative)
Scaled(a, b, k) ==
    IF k >= 0 THEN MagDivMod(MagShl(a, k), b) ELSE MagDivMod(a, MagShl(b, -k))

ScaledDen(b, k) == IF k >= 0 THEN b ELSE MagShl(b, -k)

\* the k for which a * 2^k / b has 53 bits before the point: k1 or k1 + 1
ScaleFrom(a, b, k1) ==
    IF MagBitLen(Trim(Scaled(a, b, k1).q)) < 53 THEN k1 + 1 ELSE k1

Scale(a, b) == ScaleFrom(a, b, 52 - (MagBitLen(a) - MagBitLen(b)))

\* round to nearest, ties to even: c compares twice the remainder with
\* the divisor, q is the quotient
RoundsUp(c, q) == c > 0 \/ (c = 0 /\ q # <<>> /\ q[1] % 2 = 1)

\* the 53-bit significand of the double nearest to t.q + t.r / den
Significand(t, den) ==
    Trim(IF RoundsUp(MagCmp(MagMulSmall(t.r, 2, 0), den), Trim(t.q))
         THEN MagAdd(Trim(t.q), <<1>>, 0) ELSE Trim(t.q))

\* int() of the double m * 2^-k
Unscale(m, k) == IF k >= 0 THEN MagShr(m, k).q ELSE MagShl(m, -k)

DoubleTrunc(a, b, k) ==
    Unscale(Significand(Scaled(a, b, k), ScaledDen(b, k)), k)

\* int(n / d) for d # 0: n / d is the IEEE double nearest to the quotient
\* (53 significant bits, ties to even), int() truncates it towards zero
BigTrueDivInt(n, d) ==
    IF n.mag = <<>> THEN BigZero
    ELSE MkBig(n.neg # d.neg, DoubleTrunc(n.mag, d.mag, Scale(n.mag, d.mag)))

---------------------------------------------------------------------------
(* class BME280. A calibration is [tcal |-> <<T1, T2, T3>>, pcal |->       *)
(* <<P1, ..., P9>>]: tcal[i] of the code is tcal[i + 1] here; a block is   *)
(* the six bytes read from register 0xF7.                                  *)

\* lines 59-60: the three terms of each | have no bit in common
RawP(rd) == rd[1] * 4096 + rd[2] * 16 + rd[3] \div 16

RawT(rd) == rd[4] * 4096 + rd[5] * 16 + rd[6] \div 16

BigSquare(x) == BigMul(x, x)

\* line 63
Rt1(cal, rd) ==
    BigShr(BigMul(BigOf(RawT(rd) \div 8 - 2 * cal.tcal[1]), BigOf(cal.tcal[2])),
           11)

\* line 64
Rt2(cal, rd) ==
    BigShr(BigMul(BigShr(BigSquare(BigOf(RawT(rd) \div 16 - cal.tcal[1])), 12),
                  BigOf(cal.tcal[3])),
           14)

\* rt1 + rt2
TFine(cal, rd) == BigAdd(Rt1(cal, rd), Rt2(cal, rd))

\* line 65
Temp(cal, rd) ==
    BigShr(BigAdd(BigMul(TFine(cal, rd), BigOf(5)), BigOf(128)), 8)

\* line 68
Rp1Start(cal, rd) == BigSub(TFine(cal, rd), BigOf(128000))

\* lines 69-71 from the rp1 of line 68
Rp2From(v, cal) ==
    BigAdd(BigAdd(BigMul(BigSquare(v), BigOf(cal.pcal[6])),
                  BigShl(BigMul(v, BigOf(cal.pcal[5])), 17)),
           BigShl(BigOf(cal.pcal[4]), 35))

\* lines 68-71: rp2
Rp2(cal, rd) == Rp2From(Rp1Start(cal, rd), cal)

\* line 72 from the rp1 of line 68
Rp1From(v, cal) ==
    BigAdd(BigShr(BigMul(BigSquare(v), BigOf(cal.pcal[3])), 8),
           BigShl(BigMul(v, BigOf(cal.pcal[2])), 12))

\* lines 68, 72-73: rp1, the divisor of the pressure
Divisor(cal, rd) ==
    BigShr(BigMul(BigAdd(BigShl(BigOf(1), 47), Rp1From(Rp1Start(cal, rd), cal)),
                  BigOf(cal.pcal[1])),
           33)

\* lines 79-81 from the pres of line 78
Refined(p, cal) ==
    BigAdd(BigShr(BigAdd(BigAdd(p,
                                BigShr(BigMul(BigMul(BigOf(cal.pcal[9]),
                                                     BigShr(p, 13)),
                                              BigShr(p, 13)), 25)),
                         BigShr(BigMul(BigOf(cal.pcal[8]), p), 19)),
                  8),
           BigShl(BigOf(cal.pcal[7]), 4))

\* lines 77-78: the dividend of the pressure
Dividend(cal, rd) ==
    BigMul(BigSub(BigShl(BigOf(1048576 - RawP(rd)), 31), Rp2(cal, rd)),
           BigOf(3125))

\* lines 77-81
Compensated(cal, rd) ==
    Refined(BigTrueDivInt(Dividend(cal, rd), Divisor(cal, rd)), cal)

\* the division of line 78 made whatever the divisor
PressureUnguarded(cal, rd) ==
    IF Divisor(cal, rd) = BigZero
    THEN [err |-> "ZeroDivisionError", pres |-> BigZero]
    ELSE [err |-> "none", pres |-> Compensated(cal, rd)]

\* lines 74-81: pres, and the exception raised if any
Pressure(cal, rd) ==
    IF Divisor(cal, rd) = BigZero
    THEN [err |-> "none", pres |-> BigZero]
    ELSE [err |-> "none", pres |-> Compensated(cal, rd)]

\* line 83: temp / 100.0 and (pres / 256.0) / 100.0 are the doubles
\* nearest to num / den
Returned(t, p) ==
    [err |-> p.err,
     temp |-> [num |-> t, den |-> 100],
     press |-> [num |-> p.pres, den |-> 25600]]

\* BME280.reading, lines 56-83
Compute(cal, rd) == Returned(Temp(cal, rd), Pressure(cal, rd))

\* the calibration and the block of the worked example of the data sheet
DatasheetCal ==
    [tcal |-> <<27504, 26435, -1000>>,
     pcal |-> <<36477, -10685, 3024, 2855, 140, -7, 15500, -14600, 6000>>]

DatasheetRaw == <<101, 90, 192, 126, 237, 0>>

\* a device whose first pressure coefficient reads 0
ZeroP1Cal == [DatasheetCal EXCEPT !.pcal[1] = 0]

\* a device whose coefficients make the divisor vanish at some temperatures
SteepCal ==
    [tcal |-> <<0, 26435, 0>>,
     pcal |-> <<1, -32768, 0, 2855, 140, -7, 15500, -14600, 6000>>]

\* a block at which SteepCal's divisor is 0
SteepRaw == <<101, 90, 192, 178, 6, 160>>

\* a block at which the quotient of line 78 lies just below an integer
NearRaw == <<84, 196, 144, 98, 3, 0>>

Calibrations == {DatasheetCal, ZeroP1Cal, SteepCal}

Blocks == {DatasheetRaw, SteepRaw, NearRaw}

\* Compute over the pairs S, as a table; p is a pair of S
RECURSIVE Tabulate(_), TabulateFrom(_, _)
Tabulate(S) ==
    IF S = {} THEN << >> ELSE TabulateFrom(CHOOSE x \in S : TRUE, S)

TabulateFrom(p, S) == (p :> Compute(p[1], p[2])) @@ Tabulate(S \ {p})

\* the readings of every device at every block, computed once
Readings == Tabulate(Calibrations \X Blocks)

\* BME280.reading
Reading(cal, rd) == Readings[<<cal, rd>>]

\* the message publishMQTT builds from the reading r
BaseMessage(r, topic) ==
    [kind |-> "base", topic |-> <<topic, "base">>,
     payload |-> [temp |-> r.temp, press |-> r.press]]

\* BME280.publishMQTT: the messages published, and the exception if any
PublishMQTT(cal, rd, topic) ==
    IF Reading(cal, rd).err # "none"
    THEN [err |-> Reading(cal, rd).err, out |-> <<>>]
    ELSE [err |-> "none", out |-> << BaseMessage(Reading(cal, rd), topic) >>]

---------------------------------------------------------------------------
(* class Sensor *)

AtlasTypes == {37, 38, 39}

NoneSeen == [m \in AtlasTypes |-> FALSE]

NewSensor(model, sID, name) ==
    [model |-> model, myID |-> sID, name |-> name,
     measure_time |-> "", temp |-> 0, humidity |-> 0, battery |-> TRUE,
     channel |-> "Z", ptemp |-> 0,
     wind_speed |-> <<>>, wind_dir |-> 0, last_rain |-> -1, rain |-> 0,
     strikes |-> <<>>, strike_dist |-> <<>>, uv |-> 0, lux |-> 0,
     atlas_seen |-> NoneSeen,
     rssi |-> 0, noise |-> 0, snr |-> 0]

\* (F - 32.0) * (5.0 / 9.0), in ninths of a degree
FromF(f) == (f - 32) * 5

\* a Celsius value, in ninths of a degree
FromC(c) == c * 9

\* a mph sample, in 1/1609344 mph
FromMph(v) == v * MicroKmPerMile

\* v / 1.609344, in 1/1609344 mph
FromKmh(v) == v * 1000000

\* Sensor.update, lines 196-256: merge the fields present in the reading.
\* Each field is written by the statements of update that assign it, in
\* their order (temperature_F after temperature_C, wind_avg_km_h after
\* wind_avg_mi_h).
MergeFields(s, d) ==
    [s EXCEPT
       !.channel = IF Has(d, "channel") THEN d.channel ELSE @,
       !.battery = IF Has(d, "battery_ok") THEN d.battery_ok = 1 ELSE @,
       !.temp = IF Has(d, "temperature_F") THEN FromF(d.temperature_F)
                ELSE IF Has(d, "temperature_C") THEN FromC(d.temperature_C)
                ELSE @,
       !.ptemp = IF Has(d, "temperature_1_F") THEN FromF(d.temperature_1_F)
                 ELSE IF Has(d, "temperature_1_C") THEN FromC(d.temperature_1_C)
                 ELSE @,
       !.humidity = IF Has(d, "humidity") THEN d.humidity ELSE @,
       !.measure_time = IF Has(d, "time") THEN d.time ELSE @,
       !.rssi = IF Has(d, "rssi") THEN d.rssi ELSE @,
       !.snr = IF Has(d, "snr") THEN d.snr ELSE @,
       !.noise = IF Has(d, "noise") THEN d.noise ELSE @,
       !.wind_speed =
           @ \o (IF Has(d, "wind_avg_mi_h") THEN <<FromMph(d.wind_avg_mi_h)>> ELSE <<>>)
             \o (IF Has(d, "wind_avg_km_h") THEN <<FromKmh(d.wind_avg_km_h)>> ELSE <<>>),
       !.wind_dir = IF Has(d, "wind_dir_deg") THEN d.wind_dir_deg ELSE @,
       !.strikes = IF Has(d, "strike_count") THEN Append(@, d.strike_count) ELSE @,
       !.strike_dist = IF Has(d, "strike_distance")
                       THEN Append(@, d.strike_distance) ELSE @,
       !.uv = IF Has(d, "uv") THEN d.uv ELSE @,
       !.lux = IF Has(d, "lux") THEN d.lux ELSE @,
       !.last_rain = IF Has(d, "rain_in") /\ @ < 0 THEN d.rain_in ELSE @,
       !.rain = IF Has(d, "rain_in") THEN d.rain_in ELSE @]

\* a message type outside 37..39 empties the completion set
MarkSeenOrClear(s, d) ==
    IF Has(d, "message_type")
    THEN IF d.message_type \in AtlasTypes
         THEN [s EXCEPT !.atlas_seen[d.message_type] = TRUE]
         ELSE [s EXCEPT !.atlas_seen = NoneSeen]
    ELSE s

\* Sensor.update, lines 258-264: mark the message type in the completion set
MarkSeen(s, d) ==
    IF Has(d, "message_type") /\ d.message_type \in AtlasTypes
    THEN [s EXCEPT !.atlas_seen[d.message_type] = TRUE]
    ELSE s

\* every model waits for the three message types
IsCompleteAllSeen(s) == s.atlas_seen[37] /\ s.atlas_seen[38] /\ s.atlas_seen[39]

\* Sensor.update, lines 266-275: the value update returns
IsComplete(s) ==
    IF s.model = "Acurite-Atlas"
    THEN s.atlas_seen[37] /\ s.atlas_seen[38] /\ s.atlas_seen[39]
    ELSE TRUE

\* Sensor.update(jsonData): the new Sensor and the returned flag
Update(s, d) ==
    IF Has(d, "id") /\ d.id # s.myID
    THEN [sensor |-> s, complete |-> FALSE]
    ELSE LET t == MarkSeen(MergeFields(s, d), d)
         IN  [sensor |-> t, complete |-> IsComplete(t)]

\* Sensor.topic
Topic(s) == IF s.name = "" THEN s.myID ELSE s.name

\* sum(x) / len(x)
Avg(x) == [sum |-> Sum(x), n |-> Len(x)]

\* the difference as it comes
RainDeltaSigned(s) == s.rain - s.last_rain

\* lines 318-320
RainDelta(s) == IF s.rain - s.last_rain < 0 THEN 0 ELSE s.rain - s.last_rain

\* the JSON payload publishMQTTJSON builds
Payload(s) ==
    LET head == [temp |-> s.temp, hum |-> s.humidity, batt |-> s.battery]
        tail == [rssi |-> s.rssi, noise |-> s.noise, time |-> s.measure_time]
        mid  == IF s.model = "Acurite-Tower" THEN [chan |-> s.channel]
                ELSE IF s.model = "Acurite-00275rm" THEN [ptemp |-> s.ptemp]
                ELSE IF s.model = "Acurite-Atlas"
                THEN [chan |-> s.channel, uv |-> s.uv, lux |-> s.lux,
                      wind_dir |-> s.wind_dir,
                      wind_speed |-> Avg(s.wind_speed),
                      strikes |-> Avg(s.strikes),
                      strike_dist |-> Avg(s.strike_dist),
                      rain_delta |-> RainDelta(s), rain |-> s.rain]
                ELSE << >>
    IN  head @@ mid @@ tail

\* the completion set survives the publication
AfterPublishKeepsSeen(s) ==
    IF s.model = "Acurite-Atlas"
    THEN [s EXCEPT !.last_rain = s.rain, !.wind_speed = <<>>, !.strikes = <<>>,
                   !.strike_dist = <<>>]
    ELSE s

\* the Sensor after publishMQTTJSON: the Atlas accumulators are reset
AfterPublish(s) ==
    IF s.model = "Acurite-Atlas"
    THEN [s EXCEPT !.last_rain = s.rain, !.wind_speed = <<>>, !.strikes = <<>>,
                   !.strike_dist = <<>>, !.atlas_seen = NoneSeen]
    ELSE s

\* Sensor.publishMQTTJSON(client, baseTopic): the Sensor afterwards, the
\* messages published, and the exception raised if any
PublishMQTTJSON(s, baseTopic) ==
    IF s.model = "Acurite-Atlas"
       /\ (Len(s.wind_speed) = 0 \/ Len(s.strikes) = 0 \/ Len(s.strike_dist) = 0)
    THEN [sensor |-> s, out |-> <<>>, err |-> "ZeroDivisionError"]
    ELSE [sensor |-> AfterPublish(s),
          out |-> << [kind |-> "sensor", topic |-> <<baseTopic, Topic(s)>>,
                      id |-> s.myID, payload |-> Payload(s)] >>,
          err |-> "none"]

---------------------------------------------------------------------------
(* class SensorList *)

\* the duplicate test reduced to "this id has been seen"
IsRepeatById(data, lm) == Has(data, "time") /\ data.id \in DOMAIN lm

\* lines 131-133: the reading repeats the last one recorded for its id
IsRepeat(data, lm) ==
    Has(data, "time") /\ data.id \in DOMAIN lm /\ data.time = lm[data.id]

\* the time of the reading is not stored
RememberNothing(data, lm) == lm

\* line 138: self.lastMessage[data['id']] = data['time']
Remember(data, lm) == (data.id :> data.time) @@ lm

\* SensorList.process(data), run as main's for loop runs it up to the
\* yield: the registry afterwards, the ids of the sensors yielded, and the
\* exception raised if any
Process(data, lm, ss, names) ==
    IF ~Has(data, "id")
    THEN [lastMessage |-> lm, sensors |-> ss, yield |-> <<>>, err |-> "none"]
    ELSE IF IsRepeat(data, lm)
    THEN [lastMessage |-> lm, sensors |-> ss, yield |-> <<>>, err |-> "none"]
    ELSE IF ~Has(data, "time")
    THEN [lastMessage |-> lm, sensors |-> ss, yield |-> <<>>, err |-> "KeyError"]
    ELSE LET lm2 == Remember(data, lm)
             name == IF data.id \in DOMAIN names THEN names[data.id] ELSE ""
             model == IF Has(data, "model") THEN data.model ELSE ""
             ss2 == IF data.id \in DOMAIN ss THEN ss
                    ELSE (data.id :> NewSensor(model, data.id, name)) @@ ss
             u == Update(ss2[data.id], data)
         IN  [lastMessage |-> lm2,
              sensors |-> (data.id :> u.sensor) @@ ss2,
              yield |-> IF u.complete THEN <<data.id>> ELSE <<>>,
              err |-> "none"]

---------------------------------------------------------------------------
(* Configuration and input *)

\* config['rename'], inverted: id -> name
sensorNames == (1001 :> "atlas") @@ (2002 :> "tower") @@ (3003 :> "probe")

\* mqtt_config['topic']
baseTopic == "weather"

UnknownId == 9999

Times == {"t1", "t2"}

\* an Acurite-Atlas message; a full one carries the fields rtl_433 sends
AtlasLine(mt, t, full) ==
    LET base == [id |-> 1001, model |-> "Acurite-Atlas", time |-> t,
                 message_type |-> mt]
        wind == [strike_count |-> 2, strike_distance |-> 6] @@
                (IF mt = 37 THEN [wind_avg_mi_h |-> 3] ELSE [wind_avg_km_h |-> 5])
        more == IF mt = 37 THEN [temperature_F |-> 50, humidity |-> 40]
                ELSE IF mt = 38 THEN [rain_in |-> IF t = "t1" THEN 5 ELSE 7]
                ELSE IF mt = 39 THEN [uv |-> 1, lux |-> 90, wind_dir_deg |-> 180]
                ELSE << >>
    IN  IF full THEN base @@ wind @@ more ELSE base

AtlasLines == {AtlasLine(mt, t, full) : mt \in AtlasTypes, t \in Times,
                                        full \in BOOLEAN}

\* an Acurite-Tower message; the one of time t2 also carries signal levels
TowerLine(t) ==
    [id |-> 2002, model |-> "Acurite-Tower", time |-> t, channel |-> "A",
     battery_ok |-> 1, temperature_C |-> 21, humidity |-> 55]
    @@ (IF t = "t2" THEN [rssi |-> -7, snr |-> 20, noise |-> -27] ELSE << >>)

\* a reading without 'model'
ProbeLine(t) == [id |-> 3003, time |-> t, temperature_1_C |-> 4, battery_ok |-> 0]

\* a reading without 'time'
NoTimeLine == [id |-> 2002, model |-> "Acurite-Tower", temperature_C |-> 22]

UnknownLine(t) == [id |-> UnknownId, model |-> "Acurite-Tower", time |-> t]

NoIdLine == [model |-> "Acurite-Tower", time |-> "t1"]

\* what readline returns at end of input
EofLine == [raw |-> ""]

GarbageLine == [raw |-> "{"]

Lines ==
    AtlasLines \cup {TowerLine(t) : t \in Times} \cup {ProbeLine("t1")}
    \cup {NoTimeLine, UnknownLine("t1"), NoIdLine, EofLine, GarbageLine}

\* differences between successive readings of time.time()
TimeSteps == {0, 61}

---------------------------------------------------------------------------
(* main and processInput *)

Running == pc \notin {"done", "crashed"}

\* no line has been taken from the queue in this iteration
NoLine == [none |-> TRUE]

NoBlock == <<0, 0, 0, 0, 0, 0>>

\* main up to worker.start(), but for the calibration
Start ==
    /\ inpq = <<>>
    /\ nRead = 0
    /\ pc = "top"
    /\ err = "none"
    /\ line = NoLine
    /\ rawd = NoBlock
    /\ thisTime = StartTime
    /\ lastPressureTime = 0
    /\ lastInputTime = StartTime
    /\ ignored = <<>>
    /\ lastMessage = <<>>
    /\ sensors = <<>>
    /\ mqtt = <<>>
    /\ killed = FALSE

Init == Start /\ bme = DatasheetCal

\* processInput: q.put(sys.stdin.readline()), for the first n lines of the
\* input; after end of input every further line read is empty
ReadUpTo(S, n) ==
    /\ Running
    /\ Len(inpq) < MaxQueue
    /\ nRead < n
    /\ \E l \in S :
          /\ (inpq # <<>> /\ inpq[Len(inpq)] = EofLine) => l = EofLine
          /\ inpq' = Append(inpq, l)
    /\ nRead' = nRead + 1
    /\ UNCHANGED <<pc, err, line, thisTime, lastPressureTime, lastInputTime, ignored,
                   lastMessage, sensors, mqtt, killed>>
    /\ UNCHANGED <<bme, rawd>>

ReadLine(S) == ReadUpTo(S, MaxLines)

\* processInput fed only lines that leave the registry as it is (repeats
\* of the last accepted reading, unknown ids, objects without 'id'): any
\* number of them may arrive
ReadStale(S) ==
    /\ Running
    /\ Len(inpq) < MaxQueue
    /\ \E l \in S : inpq' = Append(inpq, l)
    /\ UNCHANGED <<nRead, pc, err, line, thisTime, lastPressureTime, lastInputTime,
                   ignored, lastMessage, sensors, mqtt, killed>>
    /\ UNCHANGED <<bme, rawd>>

\* lines 433-434: thisTime = time.time(); if not inpq.empty()
MainTop(D) ==
    /\ pc = "top"
    /\ \E d \in D : thisTime + d <= MaxTime /\ thisTime' = thisTime + d
    /\ pc' = IF inpq # <<>> THEN "get" ELSE "sleep"
    /\ line' = NoLine
    /\ mqtt' = <<>>
    /\ UNCHANGED <<inpq, nRead, err, lastPressureTime, lastInputTime, ignored,
                   lastMessage, sensors, killed>>
    /\ UNCHANGED <<bme, rawd>>

\* the watchdog clock advanced whenever process returns
PublishYieldedAlwaysTicks(r, now, lit) ==
    IF r.err # "none"
    THEN [pc |-> "crashed", err |-> r.err, lastMessage |-> r.lastMessage,
          sensors |-> r.sensors, out |-> <<>>, lastInputTime |-> lit]
    ELSE IF r.yield = <<>>
    THEN [pc |-> "poll", err |-> "none", lastMessage |-> r.lastMessage,
          sensors |-> r.sensors, out |-> <<>>, lastInputTime |-> now]
    ELSE LET sid == r.yield[1]
             p == PublishMQTTJSON(r.sensors[sid], baseTopic)
         IN  IF p.err # "none"
             THEN [pc |-> "crashed", err |-> p.err, lastMessage |-> r.lastMessage,
                   sensors |-> r.sensors, out |-> <<>>, lastInputTime |-> lit]
             ELSE [pc |-> "poll", err |-> "none", lastMessage |-> r.lastMessage,
                   sensors |-> (sid :> p.sensor) @@ r.sensors, out |-> p.out,
                   lastInputTime |-> now]

\* lines 446-448: publish every sensor process yields (at most one) and
\* advance the watchdog clock
PublishYielded(r, now, lit) ==
    IF r.err # "none"
    THEN [pc |-> "crashed", err |-> r.err, lastMessage |-> r.lastMessage,
          sensors |-> r.sensors, out |-> <<>>, lastInputTime |-> lit]
    ELSE IF r.yield = <<>>
    THEN [pc |-> "poll", err |-> "none", lastMessage |-> r.lastMessage,
          sensors |-> r.sensors, out |-> <<>>, lastInputTime |-> lit]
    ELSE LET sid == r.yield[1]
             p == PublishMQTTJSON(r.sensors[sid], baseTopic)
         IN  IF p.err # "none"
             THEN [pc |-> "crashed", err |-> p.err, lastMessage |-> r.lastMessage,
                   sensors |-> r.sensors, out |-> <<>>, lastInputTime |-> lit]
             ELSE [pc |-> "poll", err |-> "none", lastMessage |-> r.lastMessage,
                   sensors |-> (sid :> p.sensor) @@ r.sensors, out |-> p.out,
                   lastInputTime |-> now]

\* lines 436-448: what main does with one line taken from the queue
HandleLine(text) ==
    LET p == JsonLoads(text)
        data == p.data
        same == [pc |-> "top", err |-> "none", lastMessage |-> lastMessage,
                 sensors |-> sensors, out |-> <<>>, lastInputTime |-> lastInputTime,
                 ignored |-> ignored]
    IN  IF p.err # "none" THEN [same EXCEPT !.pc = "crashed", !.err = p.err]
        ELSE IF ~Has(data, "id") THEN same
        ELSE IF InList(data.id, ignored) THEN same
        ELSE IF data.id \notin DOMAIN sensorNames
        THEN [same EXCEPT !.ignored = Append(ignored, data.id),
                          !.out = << [kind |-> "unknown", id |-> data.id] >>]
        ELSE PublishYielded(Process(data, lastMessage, sensors, sensorNames),
                            thisTime, lastInputTime)
             @@ [ignored |-> ignored]

\* lines 435-448
MainGet ==
    /\ pc = "get"
    /\ inpq # <<>>
    /\ LET h == HandleLine(Head(inpq))
       IN  /\ pc' = h.pc
           /\ err' = h.err
           /\ lastMessage' = h.lastMessage
           /\ sensors' = h.sensors
           /\ ignored' = h.ignored
           /\ lastInputTime' = h.lastInputTime
           /\ mqtt' = mqtt \o h.out
    /\ line' = Head(inpq)
    /\ inpq' = Tail(inpq)
    /\ UNCHANGED <<nRead, thisTime, lastPressureTime, killed>>
    /\ UNCHANGED <<bme, rawd>>

\* line 451: sleep(0.1)
MainSleep ==
    /\ pc = "sleep"
    /\ pc' = "poll"
    /\ UNCHANGED <<inpq, nRead, err, line, thisTime, lastPressureTime,
                   lastInputTime, ignored, lastMessage, sensors, mqtt, killed>>
    /\ UNCHANGED <<bme, rawd>>

\* the period itself counted as elapsed
PressureDueAtPeriod == thisTime - lastPressureTime >= PressureEvery

\* line 455
PressureDue == thisTime - lastPressureTime > PressureEvery

\* lines 455-458
MainPoll(R) ==
    /\ pc = "poll"
    /\ IF PressureDue
       THEN \E rd \in R :
               /\ rawd' = rd
               /\ IF PublishMQTT(bme, rd, baseTopic).err # "none"
                  THEN /\ pc' = "crashed"
                       /\ err' = PublishMQTT(bme, rd, baseTopic).err
                       /\ UNCHANGED <<mqtt, lastPressureTime>>
                  ELSE /\ pc' = "watch"
                       /\ mqtt' = mqtt \o PublishMQTT(bme, rd, baseTopic).out
                       /\ lastPressureTime' = thisTime
                       /\ UNCHANGED err
       ELSE /\ pc' = "watch"
            /\ UNCHANGED <<err, rawd, mqtt, lastPressureTime>>
    /\ UNCHANGED <<inpq, nRead, line, bme, thisTime, lastInputTime, ignored,
                   lastMessage, sensors, killed>>

\* the threshold itself counted as a stall
StalledAtThreshold == thisTime - lastInputTime >= StallAfter

\* line 460
Stalled == thisTime - lastInputTime > StallAfter

\* lines 460-470
MainWatch ==
    /\ pc = "watch"
    /\ IF Stalled
       THEN /\ mqtt' = Append(mqtt, [kind |-> "restart",
                                     topic |-> <<baseTopic, "base/restart">>])
            /\ killed' = TRUE
            /\ pc' = "done"
       ELSE /\ pc' = "top"
            /\ UNCHANGED <<mqtt, killed>>
    /\ UNCHANGED <<inpq, nRead, err, line, thisTime, lastPressureTime,
                   lastInputTime, ignored, lastMessage, sensors>>
    /\ UNCHANGED <<bme, rawd>>

\* what the device returns while nothing is measured about it
NominalBlocks == {DatasheetRaw}

Next ==
    \/ ReadLine(Lines)
    \/ MainTop(TimeSteps)
    \/ MainGet
    \/ MainSleep
    \/ MainPoll(NominalBlocks)
    \/ MainWatch

Spec == Init /\ [][Next]_vars

---------------------------------------------------------------------------
(* The watchdog: few kinds of lines, time in steps around the two periods *)

WatchLines ==
    {TowerLine(t) : t \in Times}
    \cup {AtlasLine(37, "t1", TRUE), UnknownLine("t1"), NoIdLine}

WatchSteps == {0, PressureEvery, PressureEvery + 1}

WatchNext ==
    \/ ReadLine(WatchLines)
    \/ MainTop(WatchSteps)
    \/ MainGet
    \/ MainSleep
    \/ MainPoll(NominalBlocks)
    \/ MainWatch

WatchSpec == Init /\ [][WatchNext]_vars

---------------------------------------------------------------------------
(* The rain gauge: only Acurite-Atlas messages arrive, each with the wind   *)
(* and strike fields; the three message types are sent at different times  *)

\* the cumulative rain values the input reports, all positive
RainValues == {5, 7}

StrangeType == 40

TimeOfType(mt) ==
    IF mt = 37 THEN "t1" ELSE IF mt = 38 THEN "t2"
    ELSE IF mt = 39 THEN "t3" ELSE "t4"

\* an Acurite-Atlas message without the rain field
DryLine(mt) ==
    [id |-> 1001, model |-> "Acurite-Atlas", time |-> TimeOfType(mt),
     message_type |-> mt, strike_count |-> 2, strike_distance |-> 6,
     wind_avg_km_h |-> 5]

\* an Acurite-Atlas message reporting the cumulative rain r; the one
\* reporting 7 also reports a low battery
WetLine(mt, r) ==
    DryLine(mt) @@ [rain_in |-> r]
    @@ (IF r = 7 THEN [battery_ok |-> 0] ELSE << >>)

\* an Acurite-Atlas message of a type the program does not know
StrangeLine == DryLine(StrangeType) @@ [humidity |-> 33]

RainLines ==
    {DryLine(mt) : mt \in AtlasTypes} \cup {WetLine(38, r) : r \in RainValues}
    \cup {StrangeLine}

RainSteps == {0}

ReadRain(S) == ReadUpTo(S, MaxRainLines)

RainNext ==
    \/ ReadRain(RainLines)
    \/ MainTop(RainSteps)
    \/ MainGet
    \/ MainSleep
    \/ MainPoll(NominalBlocks)
    \/ MainWatch

RainSpec == Init /\ [][RainNext]_vars

---------------------------------------------------------------------------
(* The barometer: no line arrives, the loop polls the device, which may    *)
(* carry any of the calibrations and return any of the blocks              *)

BaroSteps == {0, PressureEvery + 1}

BaroInit == Start /\ bme \in Calibrations

BaroNext ==
    \/ MainTop(BaroSteps)
    \/ MainSleep
    \/ MainPoll(Blocks)
    \/ MainWatch

BaroSpec == BaroInit /\ [][BaroNext]_vars

---------------------------------------------------------------------------
(* A feed gone stale: after TowerLine("t1") has been accepted and published *)
(* in the first iteration, only repeats of it and unrecognized lines arrive *)

StaleLines == {TowerLine("t1"), UnknownLine("t1"), NoIdLine}

LiveSteps == {0, StallAfter + 1}

LiveInit ==
    LET y == PublishYielded(Process(TowerLine("t1"), <<>>, <<>>, sensorNames),
                            StartTime, StartTime)
    IN  /\ inpq = <<>>
        /\ nRead = 1
        /\ pc = "top"
        /\ err = "none"
        /\ line = TowerLine("t1")
        /\ bme = DatasheetCal
        /\ rawd = DatasheetRaw
        /\ thisTime = StartTime
        /\ lastPressureTime = StartTime
        /\ lastInputTime = StartTime
        /\ ignored = <<>>
        /\ lastMessage = y.lastMessage
        /\ sensors = y.sensors
        /\ mqtt = y.out \o PublishMQTT(DatasheetCal, DatasheetRaw, baseTopic).out
        /\ killed = FALSE

LiveNext ==
    \/ ReadStale(StaleLines)
    \/ MainTop(LiveSteps)
    \/ MainGet
    \/ MainSleep
    \/ MainPoll(NominalBlocks)
    \/ MainWatch

\* the main thread keeps being scheduled and time.time() keeps advancing
LiveFairness ==
    /\ WF_vars(MainTop(LiveSteps))
    /\ WF_vars(MainGet)
    /\ WF_vars(MainSleep)
    /\ WF_vars(MainPoll(NominalBlocks))
    /\ WF_vars(MainWatch)
    /\ SF_vars(MainTop(LiveSteps \ {0}))

LiveSpec == LiveInit /\ [][LiveNext]_vars /\ LiveFairness

---------------------------------------------------------------------------
(* Vocabulary of the properties *)

\* the step in which main takes line l from the queue and handles it
Handles(l) == pc = "get" /\ inpq # <<>> /\ Head(inpq) = l /\ pc' # "get"

\* main hands l to SensorList.process
Routed(l) ==
    /\ ~Has(l, "raw")
    /\ Has(l, "id")
    /\ ~InList(l.id, ignored)
    /\ l.id \in DOMAIN sensorNames

\* lastMessage holds l's time under l's id
Repeats(l) ==
    Has(l, "id") /\ Has(l, "time") /\ l.id \in DOMAIN lastMessage
    /\ lastMessage[l.id] = l.time

SensorMsgs(m) == SelectSeq(m, LAMBDA x : x.kind = "sensor")

MsgsOfKind(m, k) == SelectSeq(m, LAMBDA x : x.kind = k)

\* the model of the sensor a reading l is merged into
ModelFor(l) ==
    IF l.id \in DOMAIN sensors THEN sensors[l.id].model
    ELSE IF Has(l, "model") THEN l.model ELSE ""

AllLines == Lines \cup WatchLines \cup StaleLines \cup RainLines

---------------------------------------------------------------------------
(* C1: a reading with 'id' and 'time' that reaches SensorList.process is   *)
(* dropped as a duplicate (nothing published, nothing recorded) exactly    *)
(* when lastMessage already holds its time under its id; otherwise its     *)
(* time is recorded under its id, overwriting the previous one, and the    *)
(* sensor exists afterwards and has been updated from the reading.         *)
C1_DedupByLastTime ==
    [][\A l \in AllLines :
          (Handles(l) /\ Routed(l) /\ Has(l, "time")) =>
             IF Repeats(l)
             THEN /\ lastMessage' = lastMessage
                  /\ sensors' = sensors
                  /\ SensorMsgs(mqtt') = <<>>
                  /\ pc' = "poll"
             ELSE /\ l.id \in DOMAIN lastMessage'
                  /\ lastMessage'[l.id] = l.time
                  /\ \A i \in DOMAIN lastMessage :
                        i # l.id => (i \in DOMAIN lastMessage'
                                     /\ lastMessage'[i] = lastMessage[i])
                  /\ l.id \in DOMAIN sensors'
                  /\ sensors'[l.id].measure_time = l.time
      ]_vars

\* a reading of time t1 has been accepted and published for sensor 2002
\* after the reading of time t2 (which left its signal level) had been
C1_Witness ==
    /\ pc = "poll" /\ line = TowerLine("t1")
    /\ DOMAIN lastMessage = {2002} /\ lastMessage[2002] = "t1"
    /\ sensors[2002].measure_time = "t1" /\ sensors[2002].rssi = -7
    /\ Len(SensorMsgs(mqtt)) = 1

\* handling l in the current state publishes nothing and changes nothing
Idle(l) ==
    LET h == HandleLine(l)
    IN  /\ h.err = "none"
        /\ h.out = <<>>
        /\ h.lastMessage = lastMessage
        /\ h.sensors = sensors
        /\ h.lastInputTime = lastInputTime
        /\ h.ignored = ignored

(* C2: once a reading (id, time) has been handled, handling the same       *)
(* reading again yields nothing and leaves the dedup index and every field *)
(* of every Sensor as the first call (and its publication) left them.      *)
C2_RepeatIsIdle ==
    [][\A l \in AllLines :
          (Handles(l) /\ Routed(l) /\ Has(l, "time") /\ pc' # "crashed")
             => (Repeats(l) /\ Idle(l))'
      ]_vars

\* the same Tower reading has been handled twice: the second time nothing
\* was published and the loop went on to the barometer
C2_Witness ==
    /\ pc = "poll" /\ line = TowerLine("t1") /\ mqtt = <<>>
    /\ DOMAIN sensors = {2002} /\ lastMessage[2002] = "t1"
    /\ sensors[2002].measure_time = "t1"

(* C3: a reading with 'id' and without 'time' that reaches                 *)
(* SensorList.process is accepted: the sensor exists afterwards and no     *)
(* exception ends the loop.                                                *)
C3_NoTimeAccepted ==
    [][\A l \in AllLines :
          (Handles(l) /\ Routed(l) /\ ~Has(l, "time"))
             => (pc' # "crashed" /\ l.id \in DOMAIN sensors')
      ]_vars

\* the message types a sensor has seen in its current window
SeenTypes(ss, id) ==
    IF id \in DOMAIN ss THEN {m \in AtlasTypes : ss[id].atlas_seen[m]} ELSE {}

(* C4: an accepted reading of message type 37, 38 or 39 for an             *)
(* Acurite-Atlas sensor is published (exactly one message, window reset)   *)
(* when it completes the set of the three types seen since the last        *)
(* publication, and otherwise publishes nothing and is added to the window.*)
C4_AtlasCompletion ==
    [][\A l \in AllLines :
          (/\ Handles(l) /\ Routed(l) /\ Has(l, "time") /\ ~Repeats(l)
           /\ ModelFor(l) = "Acurite-Atlas"
           /\ Has(l, "message_type") /\ l.message_type \in AtlasTypes)
             => IF SeenTypes(sensors, l.id) \cup {l.message_type} = AtlasTypes
                THEN /\ Len(SensorMsgs(mqtt')) = 1
                     /\ SensorMsgs(mqtt')[1].id = l.id
                     /\ SeenTypes(sensors', l.id) = {}
                ELSE /\ SensorMsgs(mqtt') = <<>>
                     /\ SeenTypes(sensors', l.id)
                           = SeenTypes(sensors, l.id) \cup {l.message_type}
      ]_vars

(* C5: every accepted reading of a sensor whose model is not Acurite-Atlas *)
(* (the empty model included) is published, once, with the state merged    *)
(* from it; no line makes the loop publish more than one sensor message.   *)
C5_SingleShot ==
    [][\A l \in AllLines :
          /\ (/\ Handles(l) /\ Routed(l) /\ Has(l, "time") /\ ~Repeats(l)
              /\ ModelFor(l) # "Acurite-Atlas")
                => /\ pc' = "poll"
                   /\ Len(SensorMsgs(mqtt')) = 1
                   /\ SensorMsgs(mqtt')[1].id = l.id
                   /\ SensorMsgs(mqtt')[1].payload.time = l.time
          /\ Handles(l) => Len(SensorMsgs(mqtt')) <= 1
      ]_vars

\* a sensor first seen without 'model' has been published
C5_Witness ==
    /\ pc = "poll" /\ line = ProbeLine("t1")
    /\ Len(SensorMsgs(mqtt)) = 1
    /\ SensorMsgs(mqtt)[1].id = 3003
    /\ sensors[3003].model = ""

(* C6: every accepted reading (routed to process, not a repeat, merged     *)
(* into its sensor) sets lastInputTime to the time of the iteration.       *)
C6_ClockOnEveryIngest ==
    [][\A l \in AllLines :
          (/\ Handles(l) /\ Routed(l) /\ Has(l, "time") /\ ~Repeats(l)
           /\ pc' # "crashed")
             => lastInputTime' = thisTime
      ]_vars

(* C7: a line without 'id', with an ignored id, with an id missing from    *)
(* the name table, or repeating the last reading of its id leaves          *)
(* lastInputTime unchanged.                                                *)
C7_ClockFrame ==
    [][\A l \in AllLines :
          (/\ Handles(l)
           /\ ~Has(l, "raw")
           /\ \/ ~Has(l, "id")
              \/ InList(l.id, ignored)
              \/ l.id \notin DOMAIN sensorNames
              \/ Repeats(l))
             => lastInputTime' = lastInputTime
      ]_vars

\* time has passed since the clock was set, and a repeat has just been
\* handled (nothing published, the loop goes on to the barometer)
C7_Witness ==
    /\ pc = "poll" /\ line = TowerLine("t1") /\ mqtt = <<>>
    /\ 2002 \in DOMAIN lastMessage /\ lastMessage[2002] = "t1"
    /\ thisTime > lastInputTime

(* C8: when only repeats and unrecognized lines arrive, the loop           *)
(* eventually signals the stall and ends.                                  *)
C8_StaleFeedStalls == <>(pc = "done")

(* C9: the restart notice is published at most once, exactly when the loop *)
(* ends on a stall; then the decoder has been killed, more than 60 time    *)
(* units separate thisTime from lastInputTime, the notice is the last      *)
(* message and the iteration published no sensor reading; nothing happens  *)
(* after the loop has ended; a published sensor reading sets               *)
(* lastInputTime to the time of its iteration.                             *)
C9_StallOnce ==
    /\ [](/\ Len(MsgsOfKind(mqtt, "restart")) <= 1
          /\ (Len(MsgsOfKind(mqtt, "restart")) = 1) <=> (pc = "done")
          /\ killed <=> (pc = "done")
          /\ (pc = "done") =>
                /\ thisTime - lastInputTime > StallAfter
                /\ mqtt[Len(mqtt)].kind = "restart"
                /\ SensorMsgs(mqtt) = <<>>)
    /\ [][/\ pc # "done"
          /\ (pc = "get" /\ SensorMsgs(mqtt') # <<>>) => lastInputTime' = thisTime
         ]_vars

\* the loop has ended on a stall after the clock had been reset by a
\* published reading
C9_Witness ==
    /\ pc = "done" /\ killed
    /\ lastInputTime > StartTime
    /\ thisTime - lastInputTime = StallAfter + 1

(* C10: a line that json.loads cannot parse is dropped and the loop goes   *)
(* on with the next iteration, the lines behind it still in the queue.     *)
C10_MalformedDropped ==
    [][\A l \in AllLines :
          (Handles(l) /\ Has(l, "raw"))
             => (pc' = "top" /\ err' = "none" /\ inpq' = Tail(inpq))
      ]_vars

---------------------------------------------------------------------------
(* Vocabulary of the Atlas properties *)

\* main takes l from the queue and SensorList.process merges it
Accepts(l) == Handles(l) /\ Routed(l) /\ Has(l, "time") /\ ~Repeats(l)

\* no rain_in has been merged into the sensor: rain starts at 0 and is
\* written only from rain_in, which is positive in every line of the input
RainNeverSeen(ss, id) == id \notin DOMAIN ss \/ ss[id].rain = 0

AllSeen(s) == \A m \in AtlasTypes : s.atlas_seen[m]

\* the Atlas publications among the messages m
AtlasMsgs(m) ==
    SelectSeq(m, LAMBDA x : x.kind = "sensor" /\ Has(x.payload, "rain_delta"))

(* C11: the first rain_in ever merged into an Atlas sensor seeds last_rain *)
(* with that value (and if the same reading completes the set, the rain    *)
(* delta published is 0), whatever was merged and published before; when   *)
(* rain had been seen before, a publication with rain r2 over a baseline   *)
(* r1 <= r2 reports the delta r2 - r1.                                     *)
C11_FirstRainSeedsBaseline ==
    [][\A l \in AllLines :
          (Accepts(l) /\ ModelFor(l) = "Acurite-Atlas" /\ pc' # "crashed") =>
             LET out == AtlasMsgs(mqtt')
             IN  /\ (Has(l, "rain_in") /\ RainNeverSeen(sensors, l.id)) =>
                       IF out # <<>>
                       THEN out[1].payload.rain_delta = 0
                       ELSE sensors'[l.id].last_rain = l.rain_in
                 /\ (/\ out # <<>>
                     /\ ~RainNeverSeen(sensors, l.id)
                     /\ out[1].payload.rain >= sensors[l.id].last_rain) =>
                       out[1].payload.rain_delta
                          = out[1].payload.rain - sensors[l.id].last_rain
      ]_vars

(* C12: every rain delta published for an Atlas sensor is >= 0, it is 0    *)
(* when the rain published is below the baseline the sensor had, and after *)
(* the publication last_rain equals the rain value just published.         *)
C12_RainDeltaClamped ==
    [][\A l \in AllLines :
          (Handles(l) /\ AtlasMsgs(mqtt') # <<>>) =>
             LET m == AtlasMsgs(mqtt')[1]
             IN  /\ m.payload.rain_delta >= 0
                 /\ (m.id \in DOMAIN sensors
                     /\ sensors[m.id].last_rain > m.payload.rain)
                       => m.payload.rain_delta = 0
                 /\ sensors'[m.id].last_rain = m.payload.rain
                 /\ sensors'[m.id].rain = m.payload.rain
      ]_vars

\* rain 5 has been published with delta 0 by a sensor that had merged the
\* reading of rain 7 (the one that left the low battery) before
C12_Witness ==
    /\ pc = "poll" /\ AtlasMsgs(mqtt) # <<>>
    /\ AtlasMsgs(mqtt)[1].payload.rain = 5
    /\ AtlasMsgs(mqtt)[1].payload.rain_delta = 0
    /\ 1001 \in DOMAIN sensors
    /\ sensors[1001].battery = FALSE
    /\ sensors[1001].last_rain = 5

(* C13: a line whose id is not in the name table never reaches             *)
(* SensorList.process: it leaves sensors and lastMessage alone, publishes  *)
(* the 'unknown' notice and joins the ignore list if its id is not in the  *)
(* list yet, and publishes nothing otherwise; so no Sensor, no dedup entry *)
(* and no sensor message ever exists for such an id, and the ignore list   *)
(* never holds an id twice.                                                *)
C13_UnknownIdOnce ==
    /\ [](/\ \A i \in DOMAIN sensors \cup DOMAIN lastMessage :
                i \in DOMAIN sensorNames
          /\ \A i, j \in 1..Len(ignored) : ignored[i] = ignored[j] => i = j
          /\ \A i \in 1..Len(mqtt) :
                mqtt[i].kind = "sensor" => mqtt[i].id \in DOMAIN sensorNames
          /\ Len(MsgsOfKind(mqtt, "unknown")) <= 1)
    /\ [][\A l \in AllLines :
            (Handles(l) /\ ~Has(l, "raw") /\ Has(l, "id")
             /\ l.id \notin DOMAIN sensorNames) =>
               /\ pc' = "top"
               /\ sensors' = sensors
               /\ lastMessage' = lastMessage
               /\ IF \E i \in 1..Len(ignored) : ignored[i] = l.id
                  THEN mqtt' = <<>> /\ ignored' = ignored
                  ELSE /\ mqtt' = << [kind |-> "unknown", id |-> l.id] >>
                       /\ ignored' = Append(ignored, l.id)
         ]_vars

\* a line of the unknown id has been dropped without a notice: the id was
\* in the ignore list already
C13_Witness ==
    /\ pc = "top" /\ line = UnknownLine("t1") /\ mqtt = <<>>
    /\ ignored = <<UnknownId>>

C17_ResetAtEmission ==
    /\ [](pc = "get" =>
            \A i \in DOMAIN sensors :
               sensors[i].model = "Acurite-Atlas" => ~AllSeen(sensors[i]))
    /\ [][\A l \in AllLines :
            (Handles(l) /\ AtlasMsgs(mqtt') # <<>>) =>
               LET t == sensors'[AtlasMsgs(mqtt')[1].id]
               IN  /\ t.wind_speed = <<>>
                   /\ t.strikes = <<>>
                   /\ t.strike_dist = <<>>
                   /\ \A m \in AtlasTypes : ~t.atlas_seen[m]
         ]_vars

\* the third message type has just completed a reading, which has been
\* published, and main has taken the next line from a non-empty queue
C17_Witness ==
    /\ pc = "get" /\ nRead >= 4
    /\ 1001 \in DOMAIN sensors
    /\ sensors[1001].last_rain = sensors[1001].rain
    /\ sensors[1001].wind_speed = <<>>
    /\ sensors[1001].atlas_seen = NoneSeen

(* C18: an accepted reading whose message_type is outside {37, 38, 39}     *)
(* does not end the loop and leaves the completion set as it was; its      *)
(* other fields are merged; an Atlas sensor (whose set is then incomplete) *)
(* publishes nothing, any other sensor is published.                       *)
C18_StrangeTypeIgnored ==
    [][\A l \in AllLines :
          (Accepts(l) /\ Has(l, "message_type")
           /\ l.message_type \notin AtlasTypes) =>
             LET old == IF l.id \in DOMAIN sensors THEN sensors[l.id]
                        ELSE NewSensor(ModelFor(l), l.id, sensorNames[l.id])
             IN  /\ pc' = "poll"
                 /\ l.id \in DOMAIN sensors'
                 /\ sensors'[l.id].measure_time = l.time
                 /\ Has(l, "humidity") => sensors'[l.id].humidity = l.humidity
                 /\ IF old.model = "Acurite-Atlas"
                    THEN /\ sensors'[l.id].atlas_seen = old.atlas_seen
                         /\ Has(l, "strike_count") =>
                               sensors'[l.id].strikes
                                  = Append(old.strikes, l.strike_count)
                         /\ SensorMsgs(mqtt') = <<>>
                    ELSE Len(SensorMsgs(mqtt')) = 1
      ]_vars

\* a message of type 40 has been merged into a sensor that had seen types
\* 37 and 38: the set is as it was and nothing was published
C18_Witness ==
    /\ pc = "poll" /\ line = StrangeLine /\ mqtt = <<>>
    /\ 1001 \in DOMAIN sensors
    /\ sensors[1001].humidity = 33
    /\ sensors[1001].measure_time = "t4"
    /\ sensors[1001].atlas_seen[37] /\ sensors[1001].atlas_seen[38]
    /\ ~sensors[1001].atlas_seen[39]

(* C19: whenever an Atlas sensor has all three completion entries true,    *)
(* its wind_speed, strikes and strike_dist are non-empty, and no           *)
(* publication ends with a division by zero.                               *)
C19_AveragesDefined ==
    /\ err # "ZeroDivisionError"
    /\ \A i \in DOMAIN sensors :
          (sensors[i].model = "Acurite-Atlas" /\ AllSeen(sensors[i])) =>
             /\ sensors[i].wind_speed # <<>>
             /\ sensors[i].strikes # <<>>
             /\ sensors[i].strike_dist # <<>>

(* C20: a publication of an Atlas sensor that has never merged a rain_in   *)
(* reports the rain delta 0 and leaves last_rain below 0.                  *)
C20_DryEmissionKeepsUnset ==
    [][\A l \in AllLines :
          (/\ Accepts(l) /\ ~Has(l, "rain_in")
           /\ RainNeverSeen(sensors, l.id)
           /\ AtlasMsgs(mqtt') # <<>>) =>
             /\ AtlasMsgs(mqtt')[1].payload.rain_delta = 0
             /\ sensors'[l.id].last_rain < 0
      ]_vars

---------------------------------------------------------------------------
(* Vocabulary of the barometer properties *)

\* the pressure with the division of line 78 exact and truncating
ExactPressure(cal, rd) ==
    IF Divisor(cal, rd) = BigZero THEN BigZero
    ELSE Refined(BigTruncDiv(Dividend(cal, rd), Divisor(cal, rd)), cal)

(* C15: a barometer poll never ends the loop with a division by zero; the  *)
(* message it publishes carries the temperature computed from the block,   *)
(* and the pressure 0 whenever the divisor of line 73 is 0.                *)
C15_ZeroDivisorGuarded ==
    /\ [](pc # "crashed")
    /\ [][(pc = "poll" /\ pc' # pc
           /\ thisTime - lastPressureTime > PressureEvery) =>
             /\ pc' = "watch"
             /\ mqtt' # <<>>
             /\ LET m == mqtt'[Len(mqtt')]
                IN  /\ m.kind = "base"
                    /\ m.payload.temp = [num |-> Temp(bme, rawd'), den |-> 100]
                    /\ Divisor(bme, rawd') = BigZero =>
                          m.payload.press = [num |-> BigZero, den |-> 25600]
         ]_vars

\* a device whose first pressure coefficient is 1 has been read at a block
\* where the divisor is 0: pressure 0 and a temperature have been published
C15_Witness ==
    /\ pc = "watch" /\ mqtt # <<>>
    /\ bme = SteepCal /\ rawd = SteepRaw
    /\ Divisor(bme, rawd) = BigZero
    /\ mqtt[Len(mqtt)].kind = "base"
    /\ mqtt[Len(mqtt)].payload.press.num = BigZero
    /\ mqtt[Len(mqtt)].payload.temp.num = BigOf(22979)

(* C16: the pressure of every barometer message is the one obtained with   *)
(* the division of line 78 done exactly, truncating, on integers.          *)
C16_ExactIntegerPipeline ==
    \A i \in 1..Len(mqtt) :
       mqtt[i].kind = "base" =>
          mqtt[i].payload.press.num = ExactPressure(bme, rawd)

===========================================================================
